---- MODULE Spec2Model ----
(***************************************************************************)
(* Model of year2016/day09/solution.py: the length-only decompressor for   *)
(* the (NxM) marker format.  A character sequence is a TLA+ sequence of    *)
(* one-character strings; offsets are Python's 0-based offsets, so the     *)
(* character at offset p of s is s[p + 1].                                 *)
(***************************************************************************)
EXTENDS Integers, Sequences, FiniteSets, TLC

VARIABLES
    file_text,            \* contents of input.txt, as read_text() returns them
    pc,                   \* position in the __main__ block / in the stepped run
    compressed_sequence,  \* the argument the solve_* functions hand to the calculators
    markers,              \* the list get_markers returned to part 1
    length1,              \* the length solve_part1 printed
    length2,              \* the length solve_part2 printed
    stack,                \* call stack of get_length_decompressed_sequence_part2
    returned              \* value returned by the frame popped last

vars == <<file_text, pc, compressed_sequence, markers, length1, length2, stack, returned>>

----------------------------------------------------------------------------
(* Characters and Python's string primitives *)

Digits == {"0", "1", "2", "3", "4", "5", "6", "7", "8", "9"}

Whitespace == {" ", "\n"}

At(s, p) == s[p + 1]

Min(a, b) == IF a <= b THEN a ELSE b

\* s[a:b] for 0 <= a, 0 <= b: both ends are clamped to len(s).
Slice(s, a, b) ==
    LET lo == Min(a, Len(s))
        hi == Min(b, Len(s))
    IN  IF lo >= hi THEN <<>> ELSE SubSeq(s, lo + 1, hi)

DigitValue(c) ==
    CASE c = "0" -> 0 [] c = "1" -> 1 [] c = "2" -> 2 [] c = "3" -> 3
      [] c = "4" -> 4 [] c = "5" -> 5 [] c = "6" -> 6 [] c = "7" -> 7
      [] c = "8" -> 8 [] c = "9" -> 9

\* int(d) for a non-empty run of decimal digits d (Python integers do not overflow).
RECURSIVE int(_)
int(d) ==
    IF Len(d) = 0 THEN 0
    ELSE 10 * int(SubSeq(d, 1, Len(d) - 1)) + DigitValue(d[Len(d)])

----------------------------------------------------------------------------
(* marker_pattern = re.compile(r"\((\d+)x(\d+)\)") *)

\* Offset just after the longest run of digits that starts at offset p (\d+ is greedy;
\* giving a digit back never helps, since the next pattern character is not a digit).
RECURSIVE DigitsEnd(_, _)
DigitsEnd(s, p) ==
    IF p < Len(s) /\ At(s, p) \in Digits THEN DigitsEnd(s, p + 1) ELSE p

NoMatch == [found |-> FALSE]

\* The match of marker_pattern that starts exactly at offset p, or NoMatch.
MatchAt(s, p) ==
    IF ~(p < Len(s) /\ At(s, p) = "(") THEN NoMatch
    ELSE LET e1 == DigitsEnd(s, p + 1)
         IN  IF ~(e1 > p + 1 /\ e1 < Len(s) /\ At(s, e1) = "x") THEN NoMatch
             ELSE LET e2 == DigitsEnd(s, e1 + 1)
                  IN  IF ~(e2 > e1 + 1 /\ e2 < Len(s) /\ At(s, e2) = ")") THEN NoMatch
                      ELSE [found  |-> TRUE,
                            start  |-> p,
                            end    |-> e2 + 1,
                            group1 |-> Slice(s, p + 1, e1),
                            group2 |-> Slice(s, e1 + 1, e2)]

\* marker_pattern.search(s, pos): the leftmost match starting at or after pos
\* (pos beyond len(s) finds nothing), or None.
RECURSIVE search(_, _)
search(s, pos) ==
    IF pos >= Len(s) THEN NoMatch
    ELSE LET m == MatchAt(s, pos)
         IN  IF m.found THEN m ELSE search(s, pos + 1)

----------------------------------------------------------------------------
(* Marker and get_markers *)

Marker(start, end, n_chars, n_reps) ==
    [start |-> start, end |-> end, n_chars |-> n_chars, n_reps |-> n_reps,
     length |-> end - start]

\* A get_markers that resumes the search right after the marker token, inside its data.
NextSearchPos_AfterToken(marker) == marker.end

\* Where the next search of the loop starts, after `marker` was built.
NextSearchPos(marker) == marker.end + marker.n_chars

\* A get_markers that takes the two groups of the match the wrong way round.
MarkerOf_Swapped(match) ==
    Marker(match.start, match.end, int(match.group2), int(match.group1))

\* One iteration of the while loop: the marker of `match`.
MarkerOf(match) ==
    Marker(match.start, match.end, int(match.group1), int(match.group2))

RECURSIVE get_markers_loop(_, _, _)
get_markers_loop(s, match, acc) ==
    IF ~match.found THEN acc
    ELSE LET marker == MarkerOf(match)
         IN  get_markers_loop(s, search(s, NextSearchPos(marker)), Append(acc, marker))

get_markers(s) == get_markers_loop(s, search(s, 0), <<>>)

----------------------------------------------------------------------------
(* The two length calculators *)

\* A delta that forgets the characters of the marker token itself.
get_length_decompressed_marker_NoLength(marker) ==
    marker.n_chars * marker.n_reps - marker.n_chars

get_length_decompressed_marker(marker) ==
    marker.n_chars * marker.n_reps - marker.n_chars - marker.length

RECURSIVE SumDeltas(_, _)
SumDeltas(ms, i) ==
    IF i > Len(ms) THEN 0
    ELSE get_length_decompressed_marker(ms[i]) + SumDeltas(ms, i + 1)

\* A part 1 that forgets to add len(compressed_sequence).
get_length_decompressed_sequence_part1_NoLen(s) ==
    SumDeltas(get_markers(s), 1)

get_length_decompressed_sequence_part1(s) ==
    SumDeltas(get_markers(s), 1) + Len(s)

\* A slice one character short of the data region.
DataRegion_OneShort(s, marker) == Slice(s, marker.end, marker.end + marker.n_chars - 1)

\* A slice that starts at the marker token instead of after it.
DataRegion_FromStart(s, marker) == Slice(s, marker.start, marker.end + marker.n_chars)

\* The slice part 2 recurses on.
DataRegion(s, marker) == Slice(s, marker.end, marker.end + marker.n_chars)

\* A loop body that adds the inner length once, not n_reps times.
Part2Fold_NoReps(total, marker, inner) ==
    (total + inner) - (marker.n_chars + marker.length)

\* What one iteration of part 2's for loop does to the running total.
Part2Fold(total, marker, inner) ==
    (total + marker.n_reps * inner) - (marker.n_chars + marker.length)

RECURSIVE get_length_decompressed_sequence_part2(_)
RECURSIVE Part2Loop(_, _, _, _)
Part2Loop(s, ms, i, total) ==
    IF i > Len(ms) THEN total
    ELSE Part2Loop(s, ms, i + 1,
                   Part2Fold(total, ms[i],
                             get_length_decompressed_sequence_part2(DataRegion(s, ms[i]))))

get_length_decompressed_sequence_part2(s) ==
    Part2Loop(s, get_markers(s), 1, Len(s))

\* compressed_sequence = Path(input_path).read_text()
read_text(text) == text

----------------------------------------------------------------------------
(* The examples of the module docstring *)

\* ADVENT
Example_ADVENT ==
    <<"A", "D", "V", "E", "N", "T">>

\* A(1x5)BC
Example_A1x5BC ==
    <<"A", "(", "1", "x", "5", ")", "B", "C">>

\* (3x3)XYZ
Example_3x3XYZ ==
    <<"(", "3", "x", "3", ")", "X", "Y", "Z">>

\* A(2x2)BCD(2x2)EFG
Example_A2x2BCD2x2EFG ==
    <<"A", "(", "2", "x", "2", ")", "B", "C", "D", "(", "2", "x", "2", ")", "E", "F",
      "G">>

\* (6x1)(1x3)A
Example_6x1_1x3A ==
    <<"(", "6", "x", "1", ")", "(", "1", "x", "3", ")", "A">>

\* X(8x2)(3x3)ABCY
Example_X8x2_3x3ABCY ==
    <<"X", "(", "8", "x", "2", ")", "(", "3", "x", "3", ")", "A", "B", "C", "Y">>

\* (27x12)(20x12)(13x14)(7x10)(1x12)A
Example_27x12 ==
    <<"(", "2", "7", "x", "1", "2", ")", "(", "2", "0", "x", "1", "2", ")", "(", "1",
      "3", "x", "1", "4", ")", "(", "7", "x", "1", "0", ")", "(", "1", "x", "1", "2",
      ")", "A">>

\* (25x3)(3x3)ABC(2x3)XY(5x2)PQRSTX(18x9)(3x2)TWO(5x7)SEVEN
Example_25x3 ==
    <<"(", "2", "5", "x", "3", ")", "(", "3", "x", "3", ")", "A", "B", "C", "(", "2",
      "x", "3", ")", "X", "Y", "(", "5", "x", "2", ")", "P", "Q", "R", "S", "T", "X",
      "(", "1", "8", "x", "9", ")", "(", "3", "x", "2", ")", "T", "W", "O", "(", "5",
      "x", "7", ")", "S", "E", "V", "E", "N">>

Examples ==
    {Example_ADVENT, Example_A1x5BC, Example_3x3XYZ, Example_A2x2BCD2x2EFG,
     Example_6x1_1x3A, Example_X8x2_3x3ABCY, Example_27x12, Example_25x3}

----------------------------------------------------------------------------
(* The input files explored: every concatenation of at most MaxTokens tokens,  *)
(* a token being a literal character, a character of the marker grammar on its *)
(* own, a whitespace character, or a whole marker; and the docstring examples. *)

MaxTokens == 3

MaxStepTokens == 2

CharCounts == {0, 1, 6}

RepCounts == {0, 1, 6}

DigitChar(n) == CHOOSE c \in Digits : DigitValue(c) = n

MarkerToken(n, m) == <<"(", DigitChar(n), "x", DigitChar(m), ")">>

Tokens ==
    {<<"A">>, <<"\n">>, <<"(">>, <<")">>, <<"x">>, <<"1">>}
        \cup {MarkerToken(n, m) : n \in CharCounts, m \in RepCounts}

RECURSIVE Flatten(_)
Flatten(ts) == IF Len(ts) = 0 THEN <<>> ELSE Head(ts) \o Flatten(Tail(ts))

TextsOf(k) == {Flatten(ts) : ts \in UNION {[1..j -> Tokens] : j \in 0..k}}

Inputs == TextsOf(MaxTokens) \cup Examples

StepInputs == TextsOf(MaxStepTokens) \cup Examples

----------------------------------------------------------------------------
(* The __main__ block: solve_part1, then solve_part2, on the same file *)

Init ==
    /\ file_text \in Inputs
    /\ pc = "main"
    /\ compressed_sequence = <<>>
    /\ markers = <<>>
    /\ length1 = 0
    /\ length2 = 0
    /\ stack = <<>>
    /\ returned = 0

solve_part1 ==
    /\ pc = "main"
    /\ compressed_sequence' = read_text(file_text)
    /\ markers' = get_markers(compressed_sequence')
    /\ length1' = get_length_decompressed_sequence_part1(compressed_sequence')
    /\ pc' = "part1_printed"
    /\ UNCHANGED <<file_text, length2, stack, returned>>

solve_part2 ==
    /\ pc = "part1_printed"
    /\ compressed_sequence' = read_text(file_text)
    /\ length2' = get_length_decompressed_sequence_part2(compressed_sequence')
    /\ pc' = "done"
    /\ UNCHANGED <<file_text, markers, length1, stack, returned>>

Next == solve_part1 \/ solve_part2

Spec == Init /\ [][Next]_vars

----------------------------------------------------------------------------
(* get_length_decompressed_sequence_part2 run one step at a time: a frame per  *)
(* call, holding the call's argument, the state of get_markers' while loop     *)
(* (match, markers) and of the for loop (i, total).                            *)

Frame(s) ==
    [seq |-> s, phase |-> "scan", match |-> search(s, 0), markers |-> <<>>,
     i |-> 1, total |-> Len(s)]

Top == stack[Len(stack)]

SetTop(f) == [stack EXCEPT ![Len(stack)] = f]

StepInit ==
    /\ file_text \in StepInputs
    /\ pc = "part2"
    /\ compressed_sequence = <<>>
    /\ markers = <<>>
    /\ length1 = 0
    /\ length2 = 0
    /\ stack = <<>>
    /\ returned = 0

\* solve_part2 calls the calculator on the text of the file.
Call ==
    /\ pc = "part2"
    /\ compressed_sequence' = read_text(file_text)
    /\ stack' = <<Frame(compressed_sequence')>>
    /\ pc' = "running"
    /\ UNCHANGED <<file_text, markers, length1, length2, returned>>

\* One iteration of get_markers' while loop.
ScanStep ==
    /\ pc = "running"
    /\ Top.phase = "scan"
    /\ Top.match.found
    /\ LET marker == MarkerOf(Top.match)
       IN  stack' = SetTop([Top EXCEPT
                              !.match = search(Top.seq, NextSearchPos(marker)),
                              !.markers = Append(Top.markers, marker)])
    /\ UNCHANGED <<file_text, pc, compressed_sequence, markers, length1, length2, returned>>

\* match is None: get_markers returns and the for loop starts.
ScanDone ==
    /\ pc = "running"
    /\ Top.phase = "scan"
    /\ ~Top.match.found
    /\ stack' = SetTop([Top EXCEPT !.phase = "fold"])
    /\ UNCHANGED <<file_text, pc, compressed_sequence, markers, length1, length2, returned>>

\* The for loop reaches a marker: the recursive call on its data region.
Recurse ==
    /\ pc = "running"
    /\ Top.phase = "fold"
    /\ Top.i <= Len(Top.markers)
    /\ stack' = Append(SetTop([Top EXCEPT !.phase = "wait"]),
                       Frame(DataRegion(Top.seq, Top.markers[Top.i])))
    /\ UNCHANGED <<file_text, pc, compressed_sequence, markers, length1, length2, returned>>

\* The for loop is over: the call returns its total, to the caller's loop body
\* or, for the outermost call, to solve_part2, which prints it.
Return ==
    /\ pc = "running"
    /\ Top.phase = "fold"
    /\ Top.i > Len(Top.markers)
    /\ returned' = Top.total
    /\ IF Len(stack) = 1
       THEN /\ stack' = <<>>
            /\ length2' = Top.total
            /\ pc' = "done"
       ELSE /\ LET caller == stack[Len(stack) - 1]
               IN  stack' = [SubSeq(stack, 1, Len(stack) - 1) EXCEPT
                               ![Len(stack) - 1] =
                                   [caller EXCEPT
                                      !.total = Part2Fold(caller.total,
                                                          caller.markers[caller.i],
                                                          Top.total),
                                      !.i = caller.i + 1,
                                      !.phase = "fold"]]
            /\ UNCHANGED <<length2, pc>>
    /\ UNCHANGED <<file_text, compressed_sequence, markers, length1>>

StepNext == Call \/ ScanStep \/ ScanDone \/ Recurse \/ Return

\* The interpreter runs a single thread to completion: a step that can be taken is taken.
StepSpec == StepInit /\ [][StepNext]_vars /\ WF_vars(StepNext)

\* The stepped run prints what the recursive definition computes.
StepAgrees ==
    pc = "done" => length2 = get_length_decompressed_sequence_part2(file_text)

----------------------------------------------------------------------------
(* Decompression carried out on the text itself, as the format is documented:  *)
(* walk the text from the left; a marker token at the walk's position takes    *)
(* the n_chars characters after it and puts n_reps copies of them (version     *)
(* one), or of their own decompression (version two), in the output; any other *)
(* character is copied.                                                        *)

RECURSIVE Repeat(_, _)
Repeat(s, n) == IF n <= 0 THEN <<>> ELSE s \o Repeat(s, n - 1)

RECURSIVE FlatWalk(_, _)
FlatWalk(s, p) ==
    IF p >= Len(s) THEN <<>>
    ELSE LET m == MatchAt(s, p)
         IN  IF ~m.found THEN <<At(s, p)>> \o FlatWalk(s, p + 1)
             ELSE LET n == int(m.group1)
                  IN  Repeat(Slice(s, m.end, m.end + n), int(m.group2))
                          \o FlatWalk(s, m.end + n)

FlatText(s) == FlatWalk(s, 0)

RECURSIVE RecursiveWalk(_, _)
RecursiveWalk(s, p) ==
    IF p >= Len(s) THEN <<>>
    ELSE LET m == MatchAt(s, p)
         IN  IF ~m.found THEN <<At(s, p)>> \o RecursiveWalk(s, p + 1)
             ELSE LET n == int(m.group1)
                  IN  Repeat(RecursiveWalk(Slice(s, m.end, m.end + n), 0), int(m.group2))
                          \o RecursiveWalk(s, m.end + n)

RecursiveText(s) == RecursiveWalk(s, 0)

\* Every marker the walk of s meets from offset p on has its data inside s; with
\* deep, so has every marker met in the walk of a data region, at every level.
RECURSIVE RegionsInside(_, _, _)
RegionsInside(s, p, deep) ==
    IF p >= Len(s) THEN TRUE
    ELSE LET m == MatchAt(s, p)
         IN  IF ~m.found THEN RegionsInside(s, p + 1, deep)
             ELSE LET n == int(m.group1)
                  IN  /\ m.end + n <= Len(s)
                      /\ deep => RegionsInside(Slice(s, m.end, m.end + n), 0, TRUE)
                      /\ RegionsInside(s, m.end + n, deep)

\* Every marker met in the walk of s from p on, and in the walks of their data
\* regions, puts out at least as many characters as the marker and its data take.
RECURSIVE AllExpanding(_, _)
AllExpanding(s, p) ==
    IF p >= Len(s) THEN TRUE
    ELSE LET m == MatchAt(s, p)
         IN  IF ~m.found THEN AllExpanding(s, p + 1)
             ELSE LET n == int(m.group1)
                  IN  /\ n * int(m.group2) >= n + (m.end - m.start)
                      /\ AllExpanding(Slice(s, m.end, m.end + n), 0)
                      /\ AllExpanding(s, m.end + n)

\* The markers inside the data regions of s's own markers are all expanding.
RECURSIVE NestedExpanding(_, _)
NestedExpanding(s, p) ==
    IF p >= Len(s) THEN TRUE
    ELSE LET m == MatchAt(s, p)
         IN  IF ~m.found THEN NestedExpanding(s, p + 1)
             ELSE LET n == int(m.group1)
                  IN  /\ AllExpanding(Slice(s, m.end, m.end + n), 0)
                      /\ NestedExpanding(s, m.end + n)

\* Some offset of s in lo..hi-1 starts a marker token.
TokenWithin(s, lo, hi) == \E p \in lo..(hi - 1) : MatchAt(s, p).found

HasToken(s) == TokenWithin(s, 0, Len(s))

\* str.strip(): leading and trailing whitespace removed.
RECURSIVE lstrip(_)
lstrip(s) == IF Len(s) > 0 /\ Head(s) \in Whitespace THEN lstrip(Tail(s)) ELSE s

RECURSIVE rstrip(_)
rstrip(s) ==
    IF Len(s) > 0 /\ s[Len(s)] \in Whitespace THEN rstrip(SubSeq(s, 1, Len(s) - 1)) ELSE s

strip(s) == rstrip(lstrip(s))

Part1Printed == pc \in {"part1_printed", "done"}

Part2Printed == pc = "done"

----------------------------------------------------------------------------
\* C1: on a sequence whose markers all have their data region inside the sequence,
\* part 1 returns the length of the text that flat decompression produces.
C1_FlatLength ==
    (Part1Printed /\ RegionsInside(compressed_sequence, 0, FALSE))
        => length1 = Len(FlatText(compressed_sequence))

\* Part 1 has run on a well-formed sequence with a marker whose data holds a marker token.
C1_Witness ==
    /\ Part1Printed
    /\ RegionsInside(compressed_sequence, 0, FALSE)
    /\ Len(markers) >= 1
    /\ TokenWithin(compressed_sequence, markers[1].end, markers[1].end + markers[1].n_chars)
    /\ length1 = Len(FlatText(compressed_sequence))

\* C2: on a sequence whose markers have their data region inside the sequence they
\* are evaluated against, at every nesting level, part 2 returns the length of the
\* text that recursive decompression produces.
C2_RecursiveLength ==
    (Part2Printed /\ RegionsInside(compressed_sequence, 0, TRUE))
        => length2 = Len(RecursiveText(compressed_sequence))

\* Part 2 has run on a well-formed sequence with a marker nested in a data region.
C2_Witness ==
    /\ Part2Printed
    /\ RegionsInside(compressed_sequence, 0, TRUE)
    /\ Len(markers) >= 1
    /\ HasToken(DataRegion(compressed_sequence, markers[1]))
    /\ length2 = Len(RecursiveText(compressed_sequence))
    /\ length2 # length1

\* Some marker get_markers reports in s declares more data than s holds after it.
TopTruncated(s) ==
    \E i \in 1..Len(get_markers(s)) :
        get_markers(s)[i].end + get_markers(s)[i].n_chars > Len(s)

\* C3: with a marker whose declared data length extends past the end of the
\* sequence, neither calculator returns a length: the call fails instead.
C3_TruncatedMarkerFails ==
    TopTruncated(read_text(file_text)) => ~Part1Printed /\ ~Part2Printed

\* C4, as stated: part 2's result is at least part 1's, for any input; read here
\* on the inputs alone whose markers all have their data region inside the sequence
\* they are evaluated against, so that a violation owes nothing to truncation.
C4_Part2AtLeastPart1 ==
    (Part2Printed /\ RegionsInside(compressed_sequence, 0, TRUE)) => length2 >= length1

\* C4, amended: part 2's result is at least part 1's when every marker has its data
\* region inside the sequence it is evaluated against, at every nesting level, and
\* every marker nested in a data region expands to at least the characters it and
\* its data take (n_chars * n_reps >= n_chars + length).
C4_Part2AtLeastPart1WhenNestedExpand ==
    (/\ Part2Printed
     /\ RegionsInside(compressed_sequence, 0, TRUE)
     /\ NestedExpanding(compressed_sequence, 0))
        => length2 >= length1

\* Both parts have run on such a sequence, which has a nested marker, and part 2's
\* result is the larger one.
C4_Witness ==
    /\ Part2Printed
    /\ RegionsInside(compressed_sequence, 0, TRUE)
    /\ NestedExpanding(compressed_sequence, 0)
    /\ Len(markers) >= 1
    /\ HasToken(DataRegion(compressed_sequence, markers[1]))
    /\ length2 > length1

\* C5, as stated: part 2 returns 21 on X(8x2)(3x3)ABCY.
C5_Returns21 ==
    (Part2Printed /\ compressed_sequence = Example_X8x2_3x3ABCY) => length2 = 21

\* C5, amended: part 2 returns 20 on X(8x2)(3x3)ABCY, the length of
\* XABCABCABCABCABCABCY.
C5_Returns20 ==
    (Part2Printed /\ compressed_sequence = Example_X8x2_3x3ABCY) => length2 = 20

\* Part 2 has run on X(8x2)(3x3)ABCY.
C5_Witness ==
    Part2Printed /\ compressed_sequence = Example_X8x2_3x3ABCY

\* C6: a calculator that returns, returns a non-negative integer.
C6_NonNegative ==
    /\ Part1Printed => length1 >= 0
    /\ Part2Printed => length2 >= 0

\* C7: on a sequence in which no offset starts a marker token, both calculators
\* return the length of the sequence.
C7_NoMarkers ==
    ~HasToken(compressed_sequence)
        => /\ Part1Printed => length1 = Len(compressed_sequence)
           /\ Part2Printed => length2 = Len(compressed_sequence)

\* Both calculators have run on a sequence with parentheses, digits and an x that
\* holds no marker token.
C7_Witness ==
    /\ Part2Printed
    /\ ~HasToken(compressed_sequence)
    /\ \E i \in 1..Len(compressed_sequence) : compressed_sequence[i] = "("
    /\ \E i \in 1..Len(compressed_sequence) : compressed_sequence[i] = ")"
    /\ \E i \in 1..Len(compressed_sequence) : compressed_sequence[i] = "x"
    /\ length1 = Len(compressed_sequence)
    /\ length2 = Len(compressed_sequence)

\* C8: the sequence solve_part1 and solve_part2 hand to the calculators is the
\* file's text with its whitespace stripped, and the printed lengths are those of
\* the stripped text.
C8_WhitespaceStripped ==
    /\ Part1Printed =>
          /\ compressed_sequence = strip(file_text)
          /\ length1 = get_length_decompressed_sequence_part1(strip(file_text))
    /\ Part2Printed =>
          length2 = get_length_decompressed_sequence_part2(strip(file_text))

\* C9: in the list get_markers returns, every marker has start < end, the markers
\* are in left-to-right order, and each marker starts at or after the end of the
\* data region of every marker before it.
C9_MarkersOrdered ==
    Part1Printed =>
        /\ \A i \in 1..Len(markers) : markers[i].start < markers[i].end
        /\ \A i \in 1..(Len(markers) - 1) :
              /\ markers[i].start < markers[i + 1].start
              /\ markers[i + 1].start >= markers[i].end + markers[i].n_chars
        /\ \A i, j \in 1..Len(markers) :
              i < j => markers[j].start >= markers[i].end + markers[i].n_chars

\* get_markers has returned two markers or more, and left out a marker token that
\* lies in the first one's data region.
C9_Witness ==
    /\ Part1Printed
    /\ Len(markers) >= 2
    /\ TokenWithin(compressed_sequence, markers[1].end,
                   Min(markers[1].end + markers[1].n_chars, Len(compressed_sequence)))

\* An iteration of get_markers' while loop moves the search to the right.
ScanAdvances ==
    (/\ Len(stack) > 0 /\ Len(stack') = Len(stack)
     /\ Top.phase = "scan" /\ stack'[Len(stack')].phase = "scan")
        => /\ Len(stack'[Len(stack')].markers) = Len(Top.markers) + 1
           /\ \/ ~stack'[Len(stack')].match.found
              \/ stack'[Len(stack')].match.start > Top.match.start

\* A recursive call is on a sequence strictly shorter than its caller's.
CallShortens ==
    (Len(stack) > 0 /\ Len(stack') = Len(stack) + 1)
        => Len(stack'[Len(stack')].seq) < Len(Top.seq)

\* C10: part 2 terminates: the outermost call returns, every iteration of the
\* marker-enumeration loop moves the search to the right, and every recursive
\* call is on a sequence strictly shorter than its caller's.
C10_Terminates ==
    /\ <>(pc = "done")
    /\ [][ScanAdvances /\ CallShortens]_vars

\* Part 2 has returned on a sequence whose first marker's data region holds a
\* marker: the run made a recursive call from a recursive call.
C10_Witness ==
    /\ pc = "done"
    /\ stack = <<>>
    /\ Len(get_markers(compressed_sequence)) >= 1
    /\ HasToken(DataRegion(compressed_sequence, get_markers(compressed_sequence)[1]))

====
